---- MODULE Spec2Model ----
(***************************************************************************)
(* State-machine model of the three backup tools of database-backup:       *)
(*   mysql_backup.py  (dump + gzip + retention sweep per database),        *)
(*   zip_dirs.py      (tar with one retry + retention sweep + "Current"),  *)
(*   drive_backup.py  (tar + upload to Google Drive + remote retention).   *)
(* One run of one tool is modelled from the call of main() to its return.  *)
(* Time is counted in whole seconds; external commands take time (at most  *)
(* MaxElapsed seconds in all) and may fail (at most MaxFaults times).      *)
(* File names and paths are sequences of tokens so                         *)
(* that glob prefix matching, os.path.join and the "/" -> "_" replacement  *)
(* are computed as the code computes them.                                 *)
(***************************************************************************)
EXTENDS Integers, Sequences, FiniteSets, TLC

VARIABLES
    tool,       \* which script runs: "mysql_backup", "zip_dirs", "drive_backup"
    args,       \* the parsed command line (immutable after Init)
    secrets,    \* keys of the secrets file (SECRETS), immutable after Init
    pc,         \* position of the run in the script
    idx,        \* 1-based position of the for loop in args.targets
    rc,         \* <<>> while running, <<code>> once main() has returned
    clock,      \* wall-clock time in seconds since main() was called
    fs,         \* regular files of the local file system
    dirs,       \* directories of the local file system (canonical paths)
    remote,     \* files of the Google Drive account
    loc,        \* local variables of the running function
    smtp,       \* level of the SMTPHandler: "unbound", "ERROR" or "INFO"
    log,        \* every message written (log file, stdout, stderr)
    steps,      \* every external command / API call made, in order
    obs         \* history: the files before the run, the artifacts made, what
                \* the retention code looked at and what it did

vars == <<tool, args, secrets, pc, idx, rc, clock, fs, dirs, remote, loc,
          smtp, log, steps, obs>>

-----------------------------------------------------------------------------
(* Bounds of the model *)

MaxElapsed == 1      \* most seconds the commands of one run take together
MaxFaults == 2       \* most calls of one run that fail
MaxOld == 1          \* most backup files present before the run

(* Program constants *)

Day == 86400         \* seconds per keepdays unit
Fudge == 1           \* "1 second fudge factor"
RetryDelay == 5      \* time.sleep(5) before the second tar

Tools == {"mysql_backup", "zip_dirs", "drive_backup"}

-----------------------------------------------------------------------------
(* Sequences of tokens: names, directories, paths *)

IsPrefix(p, s) == Len(p) <= Len(s) /\ \A k \in 1..Len(p) : p[k] = s[k]

\* str.upper() on the letters the model uses
UpperChar(c) == CASE c = "a" -> "A" [] c = "b" -> "B" [] c = "n" -> "N"
                  [] OTHER -> c
Upper(s) == [k \in 1..Len(s) |-> UpperChar(s[k])]

\* directory.replace(os.path.sep, '_')
Sanitize(d) == [k \in 1..Len(d) |-> IF d[k] = "/" THEN "_" ELSE d[k]]

\* the file a path names: "." components dropped
RECURSIVE Canon(_)
Canon(d) == IF d = <<>> THEN <<>>
            ELSE IF Head(d) = "." THEN Canon(Tail(d))
            ELSE <<Head(d)>> \o Canon(Tail(d))

IsAbs(d) == d # <<>> /\ Head(d) = "/"

\* os.path.join(a, p) for a directory a and a path p = [dir, name]
Join(a, p) == IF IsAbs(p.dir) THEN p ELSE [dir |-> a \o p.dir, name |-> p.name]

Path(d, n) == [dir |-> d, name |-> n]

\* regular files are records [dir, name, mtime]; dir is canonical
FileAt(files, p) == {f \in files : f.dir = Canon(p.dir) /\ f.name = p.name}
IsFile(files, p) == FileAt(files, p) # {}
MTime(files, p) == (CHOOSE f \in FileAt(files, p) : TRUE).mtime

\* glob.glob(os.path.join(d, root + '*')): the paths come back spelled with d
Glob(files, d, root) ==
    {Path(d, f.name) : f \in {g \in files : g.dir = Canon(d) /\ IsPrefix(root, g.name)}}

\* datetime.now().isoformat(): the second, and the sub-second part, which
\* differs between two iterations of one run
Stamp(t, i) == <<".", ToString(t), ToString(i)>>

-----------------------------------------------------------------------------
(* Inputs: targets, secrets files, command lines *)

DbA == <<"a">>
DbAB == <<"a", "b">>
DbN == <<"n">>                       \* a database the secrets file has no keys for
DirA == <<"/", "a">>
DirAB == <<"/", "a", "/", "b">>
DirM == <<"/", "m">>                 \* a directory that does not exist

Databases == {DbA, DbAB, DbN}
Directories == {DirA, DirAB, DirM}
\* an existence test that every directory passes
ExistingDirsUnchecked == Directories

ExistingDirs == {DirA, DirAB}        \* os.path.exists(directory)

TargetsOf(t) == IF t = "mysql_backup" THEN Databases ELSE Directories
\* a target that can be backed up and one that cannot
PlainTargetsOf(t) == IF t = "mysql_backup" THEN {DbA, DbN} ELSE {DirA, DirM}
\* the positional arguments (nargs='+'): one target, or two in either order
TargetLists(S) == {<<x>> : x \in S} \cup {<<x, y>> : x \in S, y \in S}

EmailKeyOrder == <<"EMAIL_HOST", "EMAIL_USER", "EMAIL_PORT", "EMAIL_USE_TLS",
                   "EMAIL_PASS", "EMAIL_FROM_USER">>
EmailKey(k) == <<<<>>, k>>
EmailKeys == {EmailKey(EmailKeyOrder[k]) : k \in 1..Len(EmailKeyOrder)}
DbKey(db, suffix) == <<Upper(db), suffix>>
DbKeys == {DbKey(db, s) : db \in {DbA, DbAB}, s \in {"_DB_USER", "_DB_PASS"}}

FullSecrets == EmailKeys \cup DbKeys
\* the complete file, and the file without the first or the last EMAIL_* key read
SecretFiles == {FullSecrets, FullSecrets \ {EmailKey("EMAIL_HOST")},
                FullSecrets \ {EmailKey("EMAIL_FROM_USER")}}

BackupDirs == {<<"/", "bk">>, <<".">>, <<"bk">>}   \* absolute, default, relative
\* zip_dirs joins the glob results to no directory in its sweep: a relative
\* directory behaves as the default does
BackupDirsOf(t) == IF t = "zip_dirs" THEN {<<"/", "bk">>, <<".">>} ELSE BackupDirs
TmpDir == <<"/", "tmp">>
KeepDays == {-1, 0, 1}

\* where each tool keeps its artifacts
ArtifactDir(t, a) == IF t = "drive_backup" THEN TmpDir ELSE a.backupdir
RootOf(t, target) == IF t = "mysql_backup" THEN target ELSE Sanitize(target)
ExtOf(t) == CASE t = "mysql_backup" -> <<".sql", ".gz">>
              [] t = "zip_dirs" -> <<".tgz">>
              [] OTHER -> <<".gz">>

\* backup files left by earlier runs: one per root and age
OldAges == {Day, Day + 1}
OldFile(d, root, ext, age) ==
    [dir |-> Canon(d), name |-> root \o <<".", "old", ToString(age)>> \o ext,
     mtime |-> 0 - age]
OldFiles(t, d) ==
    {OldFile(d, RootOf(t, x), ExtOf(t), age) :
        x \in TargetsOf(t) \ {DbN, DirM}, age \in OldAges}
UpTo(S, n) == {X \in SUBSET S : Cardinality(X) <= n}

\* Google Drive: files are records [id, name, modified, parent, by]; "by" is
\* the loop position that uploaded the file, 0 for a file of an earlier run
BackupFolderId == "Backup"
OldRemote(root, age) ==
    [id |-> <<"old">> \o root,
     name |-> TmpDir \o <<"/">> \o root \o <<".", "old", ToString(age), ".gz">>,
     modified |-> 0 - age, parent |-> BackupFolderId, by |-> 0]
OldRemotes == {OldRemote(Sanitize(x), Day) : x \in ExistingDirs}

-----------------------------------------------------------------------------
(* Logging *)

\* a handler that sends every record
MailedAnyLevel(level) == smtp # "unbound"

\* does an attached SMTPHandler send a record of this level?
Mailed(level) == /\ smtp # "unbound"
                 /\ (level = "error" \/ smtp = "INFO")

Logger(level, ev, i) ==
    [ch |-> "log", level |-> level, ev |-> ev, i |-> i, mailed |-> Mailed(level)]
Stdout(ev, i) ==
    [ch |-> "stdout", level |-> "none", ev |-> ev, i |-> i, mailed |-> FALSE]
Stderr(ev, i) ==
    [ch |-> "stderr", level |-> "none", ev |-> ev, i |-> i, mailed |-> FALSE]

\* "if args.verbose: sys.stdout.write(..) else: logger.<level>(..)"
VerboseOrLog(level, ev, i) ==
    IF args.verbose THEN <<Stdout(ev, i)>> ELSE <<Logger(level, ev, i)>>

Step(op, i, t0, t1, ok) == [op |-> op, i |-> i, t0 |-> t0, t1 |-> t1, ok |-> ok]

\* the calls that failed so far, and the seconds spent in commands (the sleep
\* before a retry not counted)
Faults == Len(SelectSeq(steps, LAMBDA s : ~s.ok))
Elapsed == clock - RetryDelay * Len(SelectSeq(steps, LAMBDA s : s.op = "sleep"))

\* what the environment may do next, within the bounds of the model
Durations == 0..(MaxElapsed - Elapsed)
Outcomes == IF Faults < MaxFaults THEN BOOLEAN ELSE {TRUE}

NoLoc == [backupfile |-> Path(<<>>, <<>>), now |-> 0, utcnow |-> 0,
          pending |-> {}, folder |-> "unset"]
NoObs == [before |-> {}, swept |-> {}, made |-> {}, kept |-> {}, rdeleted |-> {}]

-----------------------------------------------------------------------------
(* main(): an uncaught exception is printed and turned into exit code 2 *)

Uncaught(ev) ==
    /\ rc' = <<2>>
    /\ pc' = "exit"
    /\ log' = log \o <<Stderr(ev, idx)>>

\* an interrupt treated as any other exception
OnKeyboardInterruptAsError ==
    /\ rc' = <<2>>
    /\ pc' = "exit"

\* "except KeyboardInterrupt: return 0"
OnKeyboardInterrupt ==
    /\ rc' = <<0>>
    /\ pc' = "exit"

\* a loop that does not advance
ContinueSameTarget ==
    /\ idx' = idx
    /\ pc' = "loop"

\* "continue": on to the next target
Continue ==
    /\ idx' = idx + 1
    /\ pc' = "loop"

\* a handler that re-raises instead of "continue"
SkipTargetRaises(ev) ==
    /\ log' = log \o VerboseOrLog("error", ev, idx) \o <<Stderr(ev, idx)>>
    /\ rc' = <<2>>
    /\ pc' = "exit"
    /\ UNCHANGED idx

\* a handler that reports nothing
SkipTargetSilently(ev) ==
    /\ log' = log
    /\ Continue
    /\ UNCHANGED rc

\* except CalledProcessError: report (stdout when verbose, else logger.error)
\* and "continue"
SkipTarget(ev) ==
    /\ log' = log \o VerboseOrLog("error", ev, idx)
    /\ Continue
    /\ UNCHANGED rc

Target == args.targets[idx]

-----------------------------------------------------------------------------
(* Start of mysql_backup(), zip_dirs(), drive_backup() *)

\* what each tool writes in its handler of FileNotFoundError
NoSecretFileReport ==
    CASE tool = "mysql_backup" ->
            IF args.verbose THEN <<Stderr("nosecretfile", 0)>>
            ELSE <<Logger("error", "nosecretfile", 0)>>
      [] tool = "zip_dirs" -> VerboseOrLog("error", "nosecretfile", 0)
      [] OTHER -> <<Logger("error", "nosecretfile", 0), Stderr("nosecretfile", 0)>>

\* a handler that reports the missing file and goes on with no secrets
OnNoSecretFileGoesOn ==
    /\ pc' = "email"
    /\ rc' = rc
    /\ log' = log \o NoSecretFileReport

\* except FileNotFoundError: report and "return -1"
OnNoSecretFile ==
    /\ pc' = "exit"
    /\ rc' = <<-1>>
    /\ log' = log \o NoSecretFileReport

\* open(secretfile) / json.loads
LoadSecrets ==
    /\ pc = "start"
    /\ IF args.secretfile
       THEN /\ pc' = "email"
            /\ UNCHANGED <<rc, log>>
       ELSE OnNoSecretFile
    /\ UNCHANGED <<tool, args, secrets, idx, clock, fs, dirs, remote, loc, smtp,
                   steps, obs>>

\* a get_secret that never raises
HasSecretAlways(key) == TRUE

\* get_secret(setting): TRUE when the key is there (else ImproperlyConfigured)
HasSecret(key) == key \in secrets

MissingEmailKeys == {k \in 1..Len(EmailKeyOrder) : ~HasSecret(EmailKey(EmailKeyOrder[k]))}

\* a run that does not look at --testlog
AfterEmailIgnoresTestLog == IF tool = "drive_backup" THEN "service" ELSE "loop"

\* "if args.testlog: ... else: ..."
AfterEmail == IF args.testlog THEN "testlog"
              ELSE IF tool = "drive_backup" THEN "service" ELSE "loop"

\* a missing EMAIL_* key that is not caught
OnMissingEmailKeyRaises ==
    /\ smtp' = smtp
    /\ Uncaught("ImproperlyConfigured")

\* "except ImproperlyConfigured: pass": no handler, the run goes on
\* (drive_backup's get_secret has logged the missing key)
OnMissingEmailKey ==
    /\ smtp' = smtp
    /\ log' = log \o (IF tool = "drive_backup"
                      THEN <<Logger("error", "missingkey", 0)>> ELSE <<>>)
    /\ pc' = AfterEmail
    /\ UNCHANGED rc

\* the try block that reads the EMAIL_* keys and attaches the SMTPHandler
SetupEmail ==
    /\ pc = "email"
    /\ IF MissingEmailKeys # {}
       THEN OnMissingEmailKey
       ELSE /\ pc' = AfterEmail
            /\ UNCHANGED rc
            /\ IF ~args.adminemail
               THEN /\ smtp' = smtp
                    /\ log' = log \o (IF tool = "drive_backup"
                                      THEN <<Logger("info", "noadmin", 0)>>
                                      ELSE VerboseOrLog("info", "noadmin", 0))
               ELSE /\ smtp' = "ERROR"
                    /\ log' = log
    /\ UNCHANGED <<tool, args, secrets, idx, clock, fs, dirs, remote, loc, steps,
                   obs>>

\* --testlog: one info and one error record, nothing else
TestLog ==
    /\ pc = "testlog"
    /\ log' = log \o <<Logger("info", "testinfo", 0), Logger("error", "testerror", 0)>>
    /\ rc' = <<0>>
    /\ pc' = "exit"
    /\ UNCHANGED <<tool, args, secrets, idx, clock, fs, dirs, remote, loc, smtp,
                   steps, obs>>

\* mysql_backup / zip_dirs: the for loop is exhausted, "return 0"
ReturnOk ==
    /\ pc = "loop"
    /\ tool # "drive_backup"
    /\ idx > Len(args.targets)
    /\ rc' = <<0>>
    /\ pc' = "exit"
    /\ UNCHANGED <<tool, args, secrets, idx, clock, fs, dirs, remote, loc, smtp,
                   log, steps, obs>>

-----------------------------------------------------------------------------
(* Retention sweep, shared arithmetic of mysql_backup and zip_dirs *)

\* "if now - mtime >= args.keepdays * 86400"
Expired(now, mtime, keepdays) == now - mtime >= keepdays * Day

\* a sweep that is also run for the default of -1
SweepEnabledFromMinusOne(keepdays) == keepdays >= -1

\* "if args.keepdays >= 0"
SweepEnabled(keepdays) == keepdays >= 0

\* "now = time.time() - 1"
SweepNow(t) == t - Fudge

\* one file of the glob: when it was looked at, its modification time, and
\* what was done ("removed", "keep", "rmfail", or "notfile" when the path the
\* code tested is no file)
Swept(i, file, t, mtime, act) ==
    [i |-> i, file |-> file, t |-> t, mtime |-> mtime, act |-> act]

\* the artifact of the current target, as a file-system entry
Artifact(p, t) == [dir |-> Canon(p.dir), name |-> p.name, mtime |-> t]

\* the file system after path p was (re)written at time t
Written(files, p, t) == (files \ FileAt(files, p)) \cup {Artifact(p, t)}

\* note, when the sweep of target i ends, whether its artifact is still there
SweepDone(files) ==
    {[i |-> idx, present |-> \E m \in obs.made : m.i = idx /\ IsFile(files, m.path)]}

-----------------------------------------------------------------------------
(* mysql_backup: the body of "for database in args.databases" *)

\* backupfile name and the two get_secret calls
MysqlBegin ==
    /\ pc = "loop"
    /\ tool = "mysql_backup"
    /\ idx <= Len(args.targets)
    /\ IF /\ HasSecret(DbKey(Target, "_DB_USER"))
          /\ HasSecret(DbKey(Target, "_DB_PASS"))
       THEN /\ pc' = "dump"
            /\ loc' = [loc EXCEPT !.backupfile =
                         Path(args.backupdir, Target \o Stamp(clock, idx) \o <<".sql">>)]
            /\ log' = log \o (IF args.verbose THEN <<Stdout("backingup", idx)>>
                              ELSE <<>>)
            /\ UNCHANGED rc
       ELSE \* ImproperlyConfigured leaves mysql_backup(); main() returns 2
            /\ Uncaught("ImproperlyConfigured")
            /\ UNCHANGED loc
    /\ UNCHANGED <<tool, args, secrets, idx, clock, fs, dirs, remote, smtp, steps,
                   obs>>

\* open(backupfile, "wb") and run(["mysqldump", ...], stdout=out, check=True)
MysqlDump ==
    /\ pc = "dump"
    /\ \E d \in Durations, ok \in Outcomes :
         /\ clock' = clock + d
         /\ fs' = Written(fs, loc.backupfile, clock + d)
         /\ steps' = Append(steps, Step("mysqldump", idx, clock, clock + d, ok))
         /\ IF ok
            THEN /\ pc' = "gzip"
                 /\ UNCHANGED <<idx, rc, log>>
            ELSE SkipTarget("dumpfailed")
    /\ UNCHANGED <<tool, args, secrets, dirs, remote, loc, smtp, obs>>

\* run(["gzip", backupfile], check=True): the .sql file is replaced by a .gz
\* file that keeps its modification time
MysqlGzip ==
    /\ pc = "gzip"
    /\ \E d \in Durations, ok \in Outcomes :
         /\ clock' = clock + d
         /\ steps' = Append(steps, Step("gzip", idx, clock, clock + d, ok))
         /\ IF ok
            THEN LET gz == Path(loc.backupfile.dir, loc.backupfile.name \o <<".gz">>)
                 IN /\ fs' = (fs \ FileAt(fs, loc.backupfile))
                               \cup {Artifact(gz, MTime(fs, loc.backupfile))}
                    /\ obs' = [obs EXCEPT !.made = @ \cup {[i |-> idx, path |-> gz]}]
                    /\ pc' = "chmod"
                    /\ UNCHANGED <<idx, rc, log>>
            ELSE /\ SkipTarget("gzipfailed")
                 /\ UNCHANGED <<fs, obs>>
    /\ UNCHANGED <<tool, args, secrets, dirs, remote, loc, smtp>>

\* os.chmod(backupfile+".gz", 0o600), the size message, and the start of the
\* sweep: "now" and the glob are taken once, before the loop over the files
MysqlChmod ==
    /\ pc = "chmod"
    /\ tool = "mysql_backup"
    /\ \E ok \in Outcomes :
         /\ steps' = Append(steps, Step("chmod", idx, clock, clock, ok))
         /\ IF ok
            THEN /\ log' = log \o VerboseOrLog("info", "backedup", idx)
                 /\ IF SweepEnabled(args.keepdays)
                    THEN /\ loc' = [loc EXCEPT
                                      !.now = SweepNow(clock),
                                      !.pending = Glob(fs, args.backupdir, Target)]
                         /\ pc' = "sweep"
                         /\ UNCHANGED idx
                    ELSE /\ Continue
                         /\ UNCHANGED loc
                 /\ UNCHANGED rc
            ELSE \* the handler's message "database=%, ..." % (..) raises ValueError
                 /\ Uncaught("ValueError")
                 /\ UNCHANGED <<idx, loc>>
    /\ UNCHANGED <<tool, args, secrets, clock, fs, dirs, remote, smtp, obs>>

\* one iteration of "for file in glob.glob(...)": fullPath is the glob result
\* joined to backupdir once more; os.remove is not guarded
MysqlSweepFile ==
    /\ pc = "sweep"
    /\ tool = "mysql_backup"
    /\ \E file \in loc.pending :
         LET fullPath == Join(args.backupdir, file)
             isfile == IsFile(fs, fullPath)
             mtime == IF isfile THEN MTime(fs, fullPath) ELSE 0
             note(act) == [obs EXCEPT !.swept =
                             @ \cup {Swept(idx, file, clock, MTime(fs, file), act)}]
         IN /\ loc' = [loc EXCEPT !.pending = @ \ {file}]
            /\ IF isfile /\ Expired(loc.now, mtime, args.keepdays)
               THEN \E ok \in Outcomes :
                      /\ steps' = Append(steps, Step("remove", idx, clock, clock, ok))
                      /\ IF ok
                         THEN /\ fs' = fs \ FileAt(fs, fullPath)
                              /\ obs' = note("removed")
                              /\ UNCHANGED <<pc, rc, log>>
                         ELSE \* OSError leaves mysql_backup(); main() returns 2
                              /\ Uncaught("OSError")
                              /\ obs' = note("rmfail")
                              /\ UNCHANGED fs
               ELSE /\ obs' = note(IF isfile THEN "keep" ELSE "notfile")
                    /\ UNCHANGED <<pc, rc, log, fs, steps>>
    /\ UNCHANGED <<tool, args, secrets, idx, clock, dirs, remote, smtp>>

\* the glob is exhausted: end of the loop body
MysqlSweepEnd ==
    /\ pc = "sweep"
    /\ tool = "mysql_backup"
    /\ loc.pending = {}
    /\ obs' = [obs EXCEPT !.kept = @ \cup SweepDone(fs)]
    /\ Continue
    /\ UNCHANGED <<tool, args, secrets, rc, clock, fs, dirs, remote, loc, smtp,
                   log, steps>>

-----------------------------------------------------------------------------
(* zip_dirs: the body of "for directory in args.directories" *)

ReturnMinus1(ev) ==
    /\ rc' = <<-1>>
    /\ pc' = "exit"
    /\ log' = log \o VerboseOrLog("error", ev, idx)

\* os.path.exists(directory), backuproot and backupfile
ZipBegin ==
    /\ pc = "loop"
    /\ tool = "zip_dirs"
    /\ idx <= Len(args.targets)
    /\ IF Target \in ExistingDirs
       THEN /\ loc' = [loc EXCEPT !.backupfile =
                         Path(args.backupdir,
                              Sanitize(Target) \o Stamp(clock, idx) \o <<".tgz">>)]
            /\ log' = log \o (IF args.verbose THEN <<Stdout("taring", idx)>> ELSE <<>>)
            /\ pc' = "tar"
            /\ UNCHANGED idx
       ELSE /\ log' = log \o VerboseOrLog("info", "missingdir", idx)
            /\ Continue
            /\ UNCHANGED loc
    /\ UNCHANGED <<tool, args, secrets, rc, clock, fs, dirs, remote, smtp, steps,
                   obs>>

\* a tar that succeeded wrote the archive; then "if args.keepdays >= 0" takes
\* "now" and the glob, else the code goes on to chmod
ZipArchived(t) ==
    LET files == Written(fs, loc.backupfile, t)
    IN /\ fs' = files
       /\ obs' = [obs EXCEPT !.made = @ \cup {[i |-> idx, path |-> loc.backupfile]}]
       /\ IF SweepEnabled(args.keepdays)
          THEN /\ loc' = [loc EXCEPT
                            !.now = SweepNow(t),
                            !.pending = Glob(files, args.backupdir, Sanitize(Target))]
               /\ pc' = "sweep"
          ELSE /\ pc' = "chmod"
               /\ UNCHANGED loc

\* tar -czf opens the archive before it reads the directory: a tar that
\* failed leaves what it wrote
TarLeftover(t) == fs' = Written(fs, loc.backupfile, t)

\* a retry that does not wait
RetryAtOnce(t) == t

\* time.sleep(5): when the second tar starts, the first having failed at t
RetryAt(t) == t + RetryDelay

\* first run(["tar", "-czf", backupfile, directory], check=True)
ZipTar ==
    /\ pc = "tar"
    /\ tool = "zip_dirs"
    /\ \E d \in Durations, ok \in Outcomes :
         /\ clock' = clock + d
         /\ steps' = Append(steps, Step("tar", idx, clock, clock + d, ok))
         /\ IF ok
            THEN ZipArchived(clock + d)
            ELSE /\ TarLeftover(clock + d)
                 /\ pc' = "retry"
                 /\ UNCHANGED <<loc, obs>>
    /\ UNCHANGED <<tool, args, secrets, idx, rc, dirs, remote, smtp, log>>

\* except CalledProcessError: time.sleep(5), then the second and last tar
ZipRetry ==
    /\ pc = "retry"
    /\ \E d \in Durations, ok \in Outcomes :
         LET t0 == RetryAt(clock)
         IN /\ clock' = t0 + d
            /\ steps' = steps \o <<Step("sleep", idx, clock, t0, TRUE),
                                   Step("tar", idx, t0, t0 + d, ok)>>
            /\ IF ok
               THEN /\ ZipArchived(t0 + d)
                    /\ UNCHANGED <<idx, rc, log>>
               ELSE /\ TarLeftover(t0 + d)
                    /\ SkipTarget("tarfailed")
                    /\ UNCHANGED <<loc, obs>>
    /\ UNCHANGED <<tool, args, secrets, dirs, remote, smtp>>

\* one iteration of "for file in glob.glob(...)"; the handler of a failed
\* os.remove formats "directory=%, ..." % (..), which raises ValueError
ZipSweepFile ==
    /\ pc = "sweep"
    /\ tool = "zip_dirs"
    /\ \E file \in loc.pending :
         LET isfile == IsFile(fs, file)
             mtime == IF isfile THEN MTime(fs, file) ELSE 0
             note(act) == [obs EXCEPT !.swept =
                             @ \cup {Swept(idx, file, clock, MTime(fs, file), act)}]
         IN /\ loc' = [loc EXCEPT !.pending = @ \ {file}]
            /\ IF isfile /\ Expired(loc.now, mtime, args.keepdays)
               THEN \E ok \in Outcomes :
                      /\ steps' = Append(steps, Step("remove", idx, clock, clock, ok))
                      /\ IF ok
                         THEN /\ fs' = fs \ FileAt(fs, file)
                              /\ obs' = note("removed")
                              /\ UNCHANGED <<pc, rc, log>>
                         ELSE /\ Uncaught("ValueError")
                              /\ obs' = note("rmfail")
                              /\ UNCHANGED fs
               ELSE /\ obs' = note(IF isfile THEN "keep" ELSE "notfile")
                    /\ UNCHANGED <<pc, rc, log, fs, steps>>
    /\ UNCHANGED <<tool, args, secrets, idx, clock, dirs, remote, smtp>>

ZipSweepEnd ==
    /\ pc = "sweep"
    /\ tool = "zip_dirs"
    /\ loc.pending = {}
    /\ obs' = [obs EXCEPT !.kept = @ \cup SweepDone(fs)]
    /\ pc' = "chmod"
    /\ UNCHANGED <<tool, args, secrets, idx, rc, clock, fs, dirs, remote, loc,
                   smtp, log, steps>>

\* os.chmod(backupfile, 0o600) and the size message
ZipChmod ==
    /\ pc = "chmod"
    /\ tool = "zip_dirs"
    /\ \E ok \in {o \in Outcomes : o => IsFile(fs, loc.backupfile)} :
         /\ steps' = Append(steps, Step("chmod", idx, clock, clock, ok))
         /\ IF ok
            THEN /\ log' = log \o VerboseOrLog("info", "archived", idx)
                 /\ pc' = "current"
                 /\ UNCHANGED rc
            ELSE \* the handler's message "directory=%, ..." % (..) raises ValueError
                 Uncaught("ValueError")
    /\ UNCHANGED <<tool, args, secrets, idx, clock, fs, dirs, remote, loc, smtp,
                   obs>>

PathToCurrent == args.backupdir \o <<"Current">>
CurrentAsFile == Path(args.backupdir, <<"Current">>)

\* "if not os.path.exists(pathToCurrent)": mkdir and nothing more for this
\* target; else the glob of the old links
ZipCurrent ==
    /\ pc = "current"
    /\ IF Canon(PathToCurrent) \notin dirs /\ ~IsFile(fs, CurrentAsFile)
       THEN \E ok \in Outcomes :
              /\ steps' = Append(steps, Step("mkdir", idx, clock, clock, ok))
              /\ IF ok
                 THEN /\ dirs' = dirs \cup {Canon(PathToCurrent)}
                      /\ Continue
                      /\ UNCHANGED <<rc, log, loc>>
                 ELSE /\ ReturnMinus1("mkdirfailed")
                      /\ UNCHANGED <<idx, dirs, loc>>
       ELSE IF Canon(PathToCurrent) \notin dirs
       THEN /\ ReturnMinus1("currentisfile")
            /\ UNCHANGED <<idx, dirs, loc, steps>>
       ELSE /\ loc' = [loc EXCEPT
                         !.pending = Glob(fs, PathToCurrent, Sanitize(Target))]
            /\ pc' = "curclean"
            /\ UNCHANGED <<idx, rc, log, dirs, steps>>
    /\ UNCHANGED <<tool, args, secrets, clock, fs, remote, smtp, obs>>

\* one iteration of the loop over the old links: fullPath is the glob result
\* joined to pathToCurrent once more
ZipCurrentRemove ==
    /\ pc = "curclean"
    /\ \E file \in loc.pending :
         LET fullPath == Join(PathToCurrent, file)
         IN /\ loc' = [loc EXCEPT !.pending = @ \ {file}]
            /\ IF IsFile(fs, fullPath)
               THEN \E ok \in Outcomes :
                      /\ steps' = Append(steps, Step("unlink", idx, clock, clock, ok))
                      /\ IF ok
                         THEN /\ fs' = fs \ FileAt(fs, fullPath)
                              /\ UNCHANGED <<pc, rc, log>>
                         ELSE /\ Uncaught("ValueError")
                              /\ UNCHANGED fs
               ELSE UNCHANGED <<pc, rc, log, fs, steps>>
    /\ UNCHANGED <<tool, args, secrets, idx, clock, dirs, remote, smtp, obs>>

\* os.link(backupfile, Current/basename(backupfile))
ZipLink ==
    /\ pc = "curclean"
    /\ loc.pending = {}
    /\ LET link == Path(PathToCurrent, loc.backupfile.name)
       IN \E ok \in {o \in Outcomes :
                         o => IsFile(fs, loc.backupfile) /\ ~IsFile(fs, link)} :
            /\ steps' = Append(steps, Step("link", idx, clock, clock, ok))
            /\ IF ok
               THEN /\ fs' = fs \cup {Artifact(link, MTime(fs, loc.backupfile))}
                    /\ Continue
                    /\ UNCHANGED <<rc, log>>
               ELSE \* the handler's message "directory=%, ..." % (..) raises ValueError
                    /\ Uncaught("ValueError")
                    /\ UNCHANGED <<idx, fs>>
    /\ UNCHANGED <<tool, args, secrets, clock, dirs, remote, loc, smtp, obs>>

-----------------------------------------------------------------------------
(* drive_backup *)

\* Drive's "name contains '<q>'"
Contains(name, q) ==
    \E o \in 0..(Len(name) - Len(q)) : \A k \in 1..Len(q) : name[o + k] = q[k]

FolderName == <<"Backup">>
Folder == [id |-> <<"folder">>, name |-> FolderName, modified |-> 0 - Day,
           parent |-> "root", by |-> 0]

\* get_service(keyfile, SCOPES): any failure is an uncaught exception
DriveGetService ==
    /\ pc = "service"
    /\ \E ok \in Outcomes :
         /\ steps' = Append(steps, Step("get_service", 0, clock, clock, ok))
         /\ IF ok
            THEN /\ pc' = "folder"
                 /\ UNCHANGED <<rc, log>>
            ELSE Uncaught("get_service")
    /\ UNCHANGED <<tool, args, secrets, idx, clock, fs, dirs, remote, loc, smtp,
                   obs>>

\* create_new_folder(service, 'Backup'): list, create when the list is empty,
\* list again and take backupdirs[0]
DriveCreateFolder ==
    /\ pc = "folder"
    /\ \E list1, create, list2 \in Outcomes :
         LET found == {f \in remote : f.name = FolderName}
             listErr == <<Logger("error", "listfailed", 0)>>
         IN IF list1 /\ found # {}
            THEN /\ loc' = [loc EXCEPT !.folder = BackupFolderId]
                 /\ steps' = Append(steps, Step("list", 0, clock, clock, TRUE))
                 /\ pc' = "loop"
                 /\ UNCHANGED <<rc, log, remote>>
            ELSE IF ~create
            THEN \* HttpError on create: return None
                 /\ loc' = [loc EXCEPT !.folder = "None"]
                 /\ steps' = steps \o <<Step("list", 0, clock, clock, list1),
                                        Step("create_folder", 0, clock, clock, FALSE)>>
                 /\ log' = log \o (IF list1 THEN <<>> ELSE listErr)
                                \o (IF args.verbose
                                    THEN <<Stdout("createfailed", 0)>> ELSE <<>>)
                 /\ pc' = "loop"
                 /\ UNCHANGED <<rc, remote>>
            ELSE /\ remote' = remote \cup {Folder}
                 /\ steps' = steps \o <<Step("list", 0, clock, clock, list1),
                                        Step("create_folder", 0, clock, clock, TRUE),
                                        Step("list", 0, clock, clock, list2)>>
                 /\ IF list2
                    THEN /\ loc' = [loc EXCEPT !.folder = BackupFolderId]
                         /\ log' = log \o (IF list1 THEN <<>> ELSE listErr)
                                        \o <<Logger("info", "foldercreated", 0)>>
                         /\ pc' = "loop"
                         /\ UNCHANGED rc
                    ELSE \* backupdirs[0] of an empty list: IndexError
                         /\ rc' = <<2>>
                         /\ pc' = "exit"
                         /\ log' = log \o (IF list1 THEN <<>> ELSE listErr)
                                        \o listErr \o <<Stderr("IndexError", 0)>>
                         /\ UNCHANGED loc
    /\ UNCHANGED <<tool, args, secrets, idx, clock, fs, dirs, smtp, obs>>

\* os.path.exists(directory), backuproot, utcnow and backupfile
DriveBegin ==
    /\ pc = "loop"
    /\ tool = "drive_backup"
    /\ idx <= Len(args.targets)
    /\ IF Target \in ExistingDirs
       THEN /\ loc' = [loc EXCEPT
                         !.utcnow = clock,
                         !.backupfile =
                            Path(TmpDir, Sanitize(Target) \o Stamp(clock, idx) \o <<".gz">>)]
            /\ log' = log \o (IF args.verbose THEN <<Stdout("taring", idx)>> ELSE <<>>)
            /\ pc' = "tar"
            /\ UNCHANGED idx
       ELSE /\ log' = log \o <<Logger("info", "missingdir", idx)>>
                          \o (IF args.verbose THEN <<Stdout("missingdir", idx)>> ELSE <<>>)
            /\ Continue
            /\ UNCHANGED loc
    /\ UNCHANGED <<tool, args, secrets, rc, clock, fs, dirs, remote, smtp, steps,
                   obs>>

\* a handler without the "continue": the code falls through to the upload
DriveTarFailedFallsThrough ==
    /\ log' = log \o (IF args.verbose THEN <<Stdout("tarfailed", idx)>> ELSE <<>>)
                   \o <<Logger("error", "tarfailed", idx)>>
    /\ pc' = "upload"
    /\ UNCHANGED idx

\* except CalledProcessError: logger.error (and stdout when verbose), "continue"
DriveTarFailed ==
    /\ log' = log \o (IF args.verbose THEN <<Stdout("tarfailed", idx)>> ELSE <<>>)
                   \o <<Logger("error", "tarfailed", idx)>>
    /\ Continue

\* run(["tar", "-czf", backupfile, directory], check=True), no retry
DriveTar ==
    /\ pc = "tar"
    /\ tool = "drive_backup"
    /\ \E d \in Durations, ok \in Outcomes :
         /\ clock' = clock + d
         /\ steps' = Append(steps, Step("tar", idx, clock, clock + d, ok))
         /\ IF ok
            THEN /\ fs' = Written(fs, loc.backupfile, clock + d)
                 /\ obs' = [obs EXCEPT !.made = @ \cup {[i |-> idx, path |-> loc.backupfile]}]
                 /\ pc' = "upload"
                 /\ UNCHANGED <<idx, log>>
            ELSE /\ TarLeftover(clock + d)
                 /\ DriveTarFailed
                 /\ UNCHANGED obs
    /\ UNCHANGED <<tool, args, secrets, rc, dirs, remote, loc, smtp>>

\* the Drive file upload_file_to_folder creates: its name is the local path
Uploaded(p, t, i) ==
    [id |-> <<"new", ToString(i)>>, name |-> p.dir \o <<"/">> \o p.name,
     modified |-> t, parent |-> BackupFolderId, by |-> i]

\* upload_file_to_folder(service, backupFolder.get('id'), backupfile, verbose),
\* then the glob of the local files to remove
DriveUpload ==
    /\ pc = "upload"
    /\ IF loc.folder = "None"
       THEN \* backupFolder.get('id') on None: AttributeError
            /\ Uncaught("AttributeError")
            /\ UNCHANGED <<clock, remote, loc, steps>>
       ELSE \E d \in Durations, ok \in Outcomes :
              /\ clock' = clock + d
              /\ steps' = Append(steps, Step("upload", idx, clock, clock + d, ok))
              /\ IF ok
                 THEN /\ remote' = remote \cup {Uploaded(loc.backupfile, clock + d, idx)}
                      /\ log' = log \o <<Logger("info", "uploaded", idx)>>
                                     \o (IF args.verbose
                                         THEN <<Stdout("uploaded", idx)>> ELSE <<>>)
                 ELSE /\ remote' = remote
                      /\ log' = log \o (IF args.verbose
                                        THEN <<Stdout("uploadfailed", idx)>> ELSE <<>>)
                                     \o <<Logger("error", "uploadfailed", idx)>>
              /\ loc' = [loc EXCEPT !.pending = Glob(fs, TmpDir, Sanitize(Target))]
              /\ pc' = "cleanup"
              /\ UNCHANGED rc
    /\ UNCHANGED <<tool, args, secrets, idx, fs, dirs, smtp, obs>>

\* one iteration of "for rmfile in glob.glob(...)": run(["rm", fileToRemove])
DriveCleanupFile ==
    /\ pc = "cleanup"
    /\ \E file \in loc.pending, ok \in Outcomes :
         LET fileToRemove == Join(TmpDir, file)
         IN /\ loc' = [loc EXCEPT !.pending = @ \ {file}]
            /\ steps' = Append(steps, Step("rm", idx, clock, clock, ok))
            /\ IF ok
               THEN /\ fs' = fs \ FileAt(fs, fileToRemove)
                    /\ log' = log \o (IF args.verbose
                                      THEN <<Stdout("removing", idx)>> ELSE <<>>)
               ELSE /\ fs' = fs
                    /\ log' = log \o (IF args.verbose
                                      THEN <<Stdout("rmfailed", idx),
                                             Logger("error", "rmfailed", idx)>>
                                      ELSE <<>>)
    /\ UNCHANGED <<tool, args, secrets, pc, idx, rc, clock, dirs, remote, smtp,
                   obs>>

\* list_files_in_drive(datequery="< '<utcnow>Z'", namequery="contains '/tmp/<root>'")
OldFilesQuery(files, utcnow, root) ==
    {f \in files : /\ Contains(f.name, TmpDir \o <<"/">> \o root)
                   /\ f.modified < utcnow}

DriveListOld ==
    /\ pc = "cleanup"
    /\ loc.pending = {}
    /\ \E d \in Durations, ok \in Outcomes :
         /\ clock' = clock + d
         /\ steps' = Append(steps, Step("list", idx, clock, clock + d, ok))
         /\ IF ok
            THEN /\ loc' = [loc EXCEPT !.pending =
                              OldFilesQuery(remote, loc.utcnow, Sanitize(Target))]
                 /\ log' = log
            ELSE /\ loc' = [loc EXCEPT !.pending = {}]
                 /\ log' = log \o <<Logger("error", "listfailed", idx)>>
    /\ pc' = "rdelete"
    /\ UNCHANGED <<tool, args, secrets, idx, rc, fs, dirs, remote, smtp, obs>>

\* delete_file(service, fileid, verbose): files().get, then files().delete;
\* the handler of HttpError reads "file", unbound when get itself failed, and
\* logs only when verbose
DriveDeleteRemote ==
    /\ pc = "rdelete"
    /\ \E file \in loc.pending, outcome \in {"ok"} \cup (IF FALSE \in Outcomes
                                   THEN {"getfailed", "deletefailed"} ELSE {}) :
         /\ loc' = [loc EXCEPT !.pending = @ \ {file}]
         /\ steps' = Append(steps, Step("delete", idx, clock, clock, outcome = "ok"))
         /\ CASE outcome = "ok" ->
                   /\ remote' = remote \ {file}
                   /\ obs' = [obs EXCEPT !.rdeleted = @ \cup {[i |-> idx, file |-> file]}]
                   /\ log' = log \o (IF args.verbose
                                     THEN <<Stdout("deleted", idx)>> ELSE <<>>)
                                  \o <<Logger("info", "deleted", idx)>>
                   /\ UNCHANGED <<pc, rc>>
              [] outcome = "deletefailed" ->
                   /\ log' = log \o (IF args.verbose
                                     THEN <<Stdout("deletefailed", idx),
                                            Logger("error", "deletefailed", idx)>>
                                     ELSE <<>>)
                   /\ UNCHANGED <<pc, rc, remote, obs>>
              [] OTHER ->
                   IF args.verbose
                   THEN \* UnboundLocalError: file
                        /\ Uncaught("UnboundLocalError")
                        /\ UNCHANGED <<remote, obs>>
                   ELSE UNCHANGED <<pc, rc, log, remote, obs>>
    /\ UNCHANGED <<tool, args, secrets, idx, clock, fs, dirs, smtp>>

DriveRemoteEnd ==
    /\ pc = "rdelete"
    /\ loc.pending = {}
    /\ Continue
    /\ UNCHANGED <<tool, args, secrets, rc, clock, fs, dirs, remote, loc, smtp,
                   log, steps, obs>>

\* after the loop: smtpHandler.setLevel(logging.INFO), the summary record,
\* "return 0"; smtpHandler is bound only when the handler was attached
DriveFinish ==
    /\ pc = "loop"
    /\ tool = "drive_backup"
    /\ idx > Len(args.targets)
    /\ IF smtp = "unbound"
       THEN /\ Uncaught("UnboundLocalError")
            /\ UNCHANGED smtp
       ELSE /\ smtp' = "INFO"
            /\ log' = Append(log, [Logger("info", "summary", 0) EXCEPT !.mailed = TRUE])
            /\ rc' = <<0>>
            /\ pc' = "exit"
    /\ UNCHANGED <<tool, args, secrets, idx, clock, fs, dirs, remote, loc, steps,
                   obs>>

-----------------------------------------------------------------------------
(* The state when main() is called *)

CurrentStates == {"absent", "dir", "file"}

\* the local files before the run
InitFiles(t, backupdir, old, current) ==
    old \cup (IF t = "zip_dirs" /\ current = "file"
              THEN {Artifact(Path(backupdir, <<"Current">>), 0 - Day)} ELSE {})

InitDirs(t, backupdir, current) ==
    IF t = "zip_dirs" /\ current = "dir" THEN {Canon(backupdir \o <<"Current">>)} ELSE {}

Start(t, a, sec, old, current, rem) ==
    /\ tool = t
    /\ args = a
    /\ secrets = sec
    /\ pc = "start"
    /\ idx = 1
    /\ rc = <<>>
    /\ clock = 0
    /\ fs = InitFiles(t, a.backupdir, old, current)
    /\ dirs = InitDirs(t, a.backupdir, current)
    /\ remote = rem
    /\ loc = NoLoc
    /\ smtp = "unbound"
    /\ log = <<>>
    /\ steps = <<>>
    /\ obs = [NoObs EXCEPT !.before = InitFiles(t, a.backupdir, old, current)]

Args(targets, keepdays, verbose, adminemail, testlog, backupdir, secretfile) ==
    [targets |-> targets, keepdays |-> keepdays, verbose |-> verbose,
     adminemail |-> adminemail, testlog |-> testlog, backupdir |-> backupdir,
     secretfile |-> secretfile]

\* file-system inputs vary; logging is non-verbose with the handler attached
InitFs ==
    \E t \in Tools :
      \E targets \in TargetLists(TargetsOf(t)),
         keepdays \in (IF t = "drive_backup" THEN {-1} ELSE KeepDays),
         backupdir \in (IF t = "drive_backup" THEN {TmpDir} ELSE BackupDirsOf(t)),
         current \in (IF t = "zip_dirs" THEN CurrentStates ELSE {"absent"}),
         rem \in (IF t = "drive_backup"
                  THEN {R \cup F : R \in UpTo(OldRemotes, MaxOld), F \in {{}, {Folder}}}
                  ELSE {{}}) :
        \E old \in (IF t = "drive_backup" \/ current = "file" THEN {{}}
                    ELSE UpTo(OldFiles(t, backupdir), MaxOld)) :
          Start(t, Args(targets, keepdays, FALSE, TRUE, FALSE, backupdir, TRUE),
                FullSecrets, old, current, rem)

\* logging inputs vary; the backup directory is absolute and holds no old file
InitLog ==
    \E t \in Tools, verbose \in BOOLEAN, adminemail \in BOOLEAN, sec \in SecretFiles,
       testlog \in BOOLEAN, secretfile \in BOOLEAN :
      \E targets \in TargetLists(PlainTargetsOf(t)) :
        Start(t, Args(targets, IF t = "drive_backup" THEN -1 ELSE 0, verbose,
                      adminemail, testlog,
                      IF t = "drive_backup" THEN TmpDir ELSE <<"/", "bk">>, secretfile),
              sec, {}, IF t = "zip_dirs" THEN "dir" ELSE "absent",
              IF t = "drive_backup" THEN {Folder} ELSE {})

Init == InitFs \/ InitLog

Next ==
    \/ LoadSecrets
    \/ SetupEmail
    \/ TestLog
    \/ ReturnOk
    \/ MysqlBegin
    \/ MysqlDump
    \/ MysqlGzip
    \/ MysqlChmod
    \/ MysqlSweepFile
    \/ MysqlSweepEnd
    \/ ZipBegin
    \/ ZipTar
    \/ ZipRetry
    \/ ZipSweepFile
    \/ ZipSweepEnd
    \/ ZipChmod
    \/ ZipCurrent
    \/ ZipCurrentRemove
    \/ ZipLink
    \/ DriveGetService
    \/ DriveCreateFolder
    \/ DriveBegin
    \/ DriveTar
    \/ DriveUpload
    \/ DriveCleanupFile
    \/ DriveListOld
    \/ DriveDeleteRemote
    \/ DriveRemoteEnd
    \/ DriveFinish

Spec == Init /\ [][Next]_vars

\* runs that exercise every step of the three tools: threshold 0, an absolute
\* backup directory with its Current directory, old files on the remote store
InitOrder ==
    \E t \in Tools, testlog \in BOOLEAN :
      \E targets \in TargetLists(TargetsOf(t)) :
        Start(t, Args(targets, IF t = "drive_backup" THEN -1 ELSE 0, FALSE, TRUE,
                      testlog, IF t = "drive_backup" THEN TmpDir ELSE <<"/", "bk">>,
                      TRUE),
              FullSecrets, {}, IF t = "zip_dirs" THEN "dir" ELSE "absent",
              IF t = "drive_backup" THEN {Folder} \cup OldRemotes ELSE {})

\* the interpreter keeps executing the script: a step that can be taken is taken
SpecOrder == InitOrder /\ [][Next]_vars /\ WF_vars(Next)

\* KeyboardInterrupt raised between two steps of a run: no handler below
\* main() catches it, so nothing else is written
Interrupt ==
    /\ pc # "exit"
    /\ OnKeyboardInterrupt
    /\ UNCHANGED <<tool, args, secrets, idx, clock, fs, dirs, remote, loc, smtp,
                   log, steps, obs>>

NextInt == Next \/ Interrupt

\* the same runs, with an interrupt possible at every point
SpecInt == InitOrder /\ [][NextInt]_vars

-----------------------------------------------------------------------------
(* Histories read by the properties *)

Positions == 1..Len(args.targets)

\* the target at position i got its local artifact
Archived(i) == \E m \in obs.made : m.i = i

\* the tar invocations made for the target at position i
TarsOf(i) == SelectSeq(steps, LAMBDA s : s.op = "tar" /\ s.i = i)

\* the step at position j is the failure that ends the archive attempts of
\* its target (in zip_dirs: the tar after the sleep)
FinalArchiveFailure(j) ==
    /\ steps[j].op \in {"mysqldump", "gzip", "tar"}
    /\ ~steps[j].ok
    /\ tool = "zip_dirs" => j > 1 /\ steps[j - 1].op = "sleep"

\* this step made a call, and the last call it made was op in Ops and failed
FailedNow(Ops) ==
    /\ Len(steps') > Len(steps)
    /\ steps'[Len(steps')].op \in Ops
    /\ ~steps'[Len(steps')].ok

\* the remote files the target at position i created in this run, deleted
\* since or not
Created(i) == {f \in remote \cup {d.file : d \in obs.rdeleted} : f.by = i}

UploadCalls(i) == SelectSeq(steps, LAMBDA s : s.op = "upload" /\ s.i = i)
UploadOk(i) == \E k \in 1..Len(UploadCalls(i)) : UploadCalls(i)[k].ok

-----------------------------------------------------------------------------
(* Retention *)

\* C1: in the sweep of mysql_backup and zip_dirs with threshold N >= 0, a
\* regular file of the backup directory whose name starts with the target's
\* prefix is deleted if and only if (sweep time - 1 second) - modification
\* time >= N * 86400 (a removal the operating system refuses set aside).
C1_DeletedIffPastCutoff ==
    \A r \in obs.swept :
        r.act # "rmfail" =>
            ((r.act = "removed") <=> ((r.t - 1) - r.mtime >= args.keepdays * 86400))

\* C2: with a threshold of 0, the artifact a run creates for a target is still
\* there when the sweep of that run for that target has finished, however
\* long the dump, compression and archive steps took.
C2_FreshArtifactSurvivesSweep ==
    args.keepdays = 0 => \A k \in obs.kept : k.present

\* C3: with a negative threshold a run of mysql_backup or zip_dirs examines no
\* file for deletion and deletes nothing from the backup directory: every
\* file that was there before the run and every artifact the run made is
\* still there.
C3_NegativeThresholdKeepsAll ==
    (tool # "drive_backup" /\ args.keepdays < 0) =>
        /\ obs.swept = {}
        /\ \A k \in 1..Len(steps) : steps[k].op # "remove"
        /\ \A f \in obs.before : f.dir = Canon(args.backupdir) => f \in fs
        /\ \A m \in obs.made : IsFile(fs, m.path)

\* a finished run with threshold -1 that made an artifact for a target whose
\* prefix an old file of the backup directory carries
C3_Witness ==
    /\ tool # "drive_backup"
    /\ args.keepdays < 0
    /\ pc = "exit"
    /\ rc = <<0>>
    /\ \E m \in obs.made, f \in obs.before :
         /\ f.dir = Canon(args.backupdir)
         /\ IsPrefix(RootOf(tool, args.targets[m.i]), f.name)
         /\ 0 - f.mtime >= Day

-----------------------------------------------------------------------------
(* Failures of the archive command *)

\* C4: when the archive or dump command of a target fails for good (the
\* second tar of zip_dirs, the tar of drive_backup, mysqldump or gzip of
\* mysql_backup), the run is not aborted: the loop goes on to the next
\* position with no artifact made and nothing uploaded, and no further step
\* is ever made for the failed target.
C4_ArchiveFailureSkipsTarget ==
    /\ [][(FailedNow({"mysqldump", "gzip", "tar"}) /\ ~(tool = "zip_dirs" /\ pc = "tar"))
            => /\ rc' = <<>>
               /\ pc' = "loop"
               /\ idx' = idx + 1
               /\ obs'.made = obs.made
               /\ remote' = remote]_vars
    /\ [](\A j \in 1..Len(steps) :
            FinalArchiveFailure(j) =>
                \A k \in (j + 1)..Len(steps) : steps[k].i > steps[j].i)

\* the archive command of the first target failed for good and the second
\* target was archived after it
C4_Witness ==
    \E j \in 1..Len(steps) :
        /\ FinalArchiveFailure(j)
        /\ steps[j].i = 1
        /\ \E k \in (j + 1)..Len(steps) :
             /\ steps[k].i = 2
             /\ steps[k].op \in {"gzip", "tar"}
             /\ steps[k].ok
        /\ Archived(2)

C6_DeleteFailureLoggedAndSkipped ==
    [][FailedNow({"remove", "rm", "delete"})
         => /\ rc' = <<>>
            /\ pc' # "exit"
            /\ Len(log') > Len(log)]_vars

-----------------------------------------------------------------------------
(* drive_backup: upload and remote retention *)

\* C7 as stated: once the loop of drive_backup is past a target, the target
\* has created exactly one remote file in the Backup folder if its local
\* archive was created, and none if its directory is missing or its archive
\* failed.
C7_OneRemoteFilePerArchive ==
    tool = "drive_backup" =>
        \A i \in Positions :
            i < idx => Cardinality(Created(i)) = (IF Archived(i) THEN 1 ELSE 0)

\* C7 amended: a target creates one remote file, in the Backup folder, when
\* its upload call succeeded and none otherwise, never more than one; an
\* upload is called only for a target whose local archive was created, and
\* is called for every such target the loop has passed.
C7_OneRemoteFilePerUpload ==
    tool = "drive_backup" =>
        \A i \in Positions :
            /\ Cardinality(Created(i)) = (IF UploadOk(i) THEN 1 ELSE 0)
            /\ Len(UploadCalls(i)) <= 1
            /\ Len(UploadCalls(i)) = 1 => Archived(i)
            /\ (Archived(i) /\ i < idx) => Len(UploadCalls(i)) = 1
            /\ \A f \in Created(i) : f.parent = BackupFolderId

\* a finished run in which one target was uploaded, one archived target's
\* upload failed and so created nothing
C7_Witness ==
    /\ tool = "drive_backup"
    /\ pc = "exit"
    /\ \E i, j \in Positions :
         /\ Archived(i) /\ UploadOk(i) /\ Cardinality(Created(i)) = 1
         /\ Archived(j) /\ ~UploadOk(j) /\ Created(j) = {}

\* C8: the remote retention of drive_backup deletes only files whose name
\* contains the sanitized prefix of the target and whose modification time
\* predates the start of the run (time 0), and never a file this run uploaded.
C8_RemoteRetentionSparesThisRun ==
    \A d \in obs.rdeleted :
        /\ Contains(d.file.name, Sanitize(args.targets[d.i]))
        /\ d.file.modified < 0
        /\ d.file.by = 0

-----------------------------------------------------------------------------
(* Email configuration and exit code *)

\* C9: with a secrets file that lacks an EMAIL_* key no SMTP handler is ever
\* attached and no record is mailed; reading the keys changes nothing but the
\* position of the run, which goes on to the backup steps; and the loop makes
\* for every target it has passed the archive call it makes with the key
\* present (mysqldump for a database with credentials, tar for a directory
\* that exists).
C9_MissingEmailKeyOnlyDisablesMail ==
    /\ [](MissingEmailKeys # {} =>
            /\ smtp = "unbound"
            /\ \A k \in 1..Len(log) : ~log[k].mailed
            /\ \A i \in Positions :
                 (/\ i < idx
                  /\ args.targets[i] \notin {DbN, DirM})
                 => \E k \in 1..Len(steps) :
                      /\ steps[k].i = i
                      /\ steps[k].op = (IF tool = "mysql_backup" THEN "mysqldump"
                                        ELSE "tar"))
    /\ [][(MissingEmailKeys # {} /\ pc = "email")
            => /\ pc' = AfterEmail
               /\ rc' = <<>>
               /\ <<idx, fs, dirs, remote, steps, obs>>'
                    = <<idx, fs, dirs, remote, steps, obs>>]_vars

\* a run without EMAIL_HOST or EMAIL_FROM_USER that archived both its targets
C9_Witness ==
    /\ MissingEmailKeys # {}
    /\ pc = "exit"
    /\ smtp = "unbound"
    /\ Len(args.targets) = 2
    /\ Archived(1)
    /\ Archived(2)

\* C10: a run in which the secrets file loads and every target is backed up
\* without any failure (each archived, and in drive_backup uploaded, the loop
\* past all of them) returns 0, whatever the email configuration.
C10_CleanRunReturnsZero ==
    (/\ pc = "exit"
     /\ args.secretfile
     /\ ~args.testlog
     /\ Faults = 0
     /\ \A i \in Positions :
          i < idx /\ Archived(i) /\ (tool = "drive_backup" => UploadOk(i)))
    => rc = <<0>>

-----------------------------------------------------------------------------
(* Configuration errors *)

\* C11: when the secrets file does not exist, no step of the run calls an
\* external command or the remote store or changes a file, a directory or a
\* remote file, and the run ends with -1 and with nothing else.
C11_NoSecretFileReturnsMinusOne ==
    /\ [][~args.secretfile =>
            /\ steps' = <<>>
            /\ <<fs, dirs, remote>>' = <<fs, dirs, remote>>
            /\ rc' \in {<<>>, <<-1>>}]_vars
    /\ []((~args.secretfile /\ pc # "start") => (pc = "exit" /\ rc = <<-1>>))

\* a run without its secrets file has returned -1
C11_Witness ==
    /\ ~args.secretfile
    /\ pc = "exit"
    /\ rc = <<-1>>
    /\ steps = <<>>
    /\ fs = obs.before

\* the secrets file has not both credentials of the database at position i
LacksDbKey(i) ==
    \E suffix \in {"_DB_USER", "_DB_PASS"} :
        <<Upper(args.targets[i]), suffix>> \notin secrets

\* C12: in mysql_backup, a listed database without its _DB_USER or _DB_PASS
\* key stops the run: the loop never passes it, no command is run and no file
\* is created for it or for any later database, and a run that ends at it
\* has returned 2.
C12_MissingDbKeyAborts ==
    tool = "mysql_backup" =>
        \A i \in Positions :
            LacksDbKey(i) =>
                /\ idx <= i
                /\ \A k \in 1..Len(steps) : steps[k].i < i
                /\ ~Archived(i)
                /\ \A f \in fs \ obs.before :
                     ~IsPrefix(args.targets[i] \o <<".">>, f.name)
                /\ (pc = "exit" /\ idx = i /\ args.secretfile /\ ~args.testlog)
                     => rc = <<2>>

\* the first database has no credentials, a later one has: the run has
\* returned 2 and nothing was run
C12_Witness ==
    /\ tool = "mysql_backup"
    /\ Len(args.targets) = 2
    /\ LacksDbKey(1)
    /\ ~LacksDbKey(2)
    /\ pc = "exit"
    /\ rc = <<2>>
    /\ steps = <<>>
    /\ fs = obs.before

-----------------------------------------------------------------------------
(* Missing directories *)

\* the directory at position i of zip_dirs or drive_backup does not exist
MissingDir(i) == tool # "mysql_backup" /\ args.targets[i] = DirM

\* the records written about position i with event ev
RecordsOf(ev, i) ==
    {[ch |-> log[k].ch, level |-> log[k].level] :
        k \in {n \in 1..Len(log) : log[n].ev = ev /\ log[n].i = i}}

\* no call was made and no error-level record written for position i
Untouched(i) ==
    /\ \A k \in 1..Len(steps) : steps[k].i # i
    /\ \A k \in 1..Len(log) : log[k].i = i => log[k].level # "error"
    /\ ~Archived(i)

\* C13 as stated: a listed directory that does not exist gets no archive
\* command, sweep or upload and no error-level record, and once the loop is
\* past it there is an info-level log record of the skip.
C13_MissingDirInfoRecord ==
    \A i \in Positions :
        MissingDir(i) =>
            /\ Untouched(i)
            /\ i < idx => [ch |-> "log", level |-> "info"] \in RecordsOf("missingdir", i)

\* C13 amended: a listed directory that does not exist gets no archive
\* command, sweep or upload and no error-level record; the step that finds it
\* missing changes no file and goes on to the next position; the skip is
\* reported by an info-level log record in drive_backup and in non-verbose
\* zip_dirs, and on stdout alone in verbose zip_dirs.
C13_MissingDirSkipped ==
    /\ [](\A i \in Positions :
            MissingDir(i) =>
                /\ Untouched(i)
                /\ i < idx =>
                     RecordsOf("missingdir", i) =
                        (CASE tool = "zip_dirs" /\ args.verbose ->
                                 {[ch |-> "stdout", level |-> "none"]}
                           [] tool = "zip_dirs" -> {[ch |-> "log", level |-> "info"]}
                           [] args.verbose -> {[ch |-> "log", level |-> "info"],
                                               [ch |-> "stdout", level |-> "none"]}
                           [] OTHER -> {[ch |-> "log", level |-> "info"]}))
    /\ [][(pc = "loop" /\ idx \in Positions /\ MissingDir(idx))
            => /\ pc' = "loop"
               /\ idx' = idx + 1
               /\ rc' = <<>>
               /\ <<fs, dirs, remote, steps>>' = <<fs, dirs, remote, steps>>]_vars

\* verbose zip_dirs skipped a missing first directory and archived the second
C13_Witness ==
    /\ tool = "zip_dirs"
    /\ args.verbose
    /\ Len(args.targets) = 2
    /\ MissingDir(1)
    /\ RecordsOf("missingdir", 1) # {}
    /\ Archived(2)
    /\ pc = "exit"

-----------------------------------------------------------------------------
(* Order of the steps *)

StepsOf(Ops, i) == {k \in 1..Len(steps) : steps[k].op \in Ops /\ steps[k].i = i}

\* what C14 says of every tool: the calls are made in list order, none starts
\* before the one before it has ended, a position gets each of its commands
\* once (tar twice in zip_dirs when the first failed), a retention call of a
\* position comes after its archive was made, and a run that returns 0 has
\* gone through the whole list
InListOrder ==
    /\ \A j, k \in 1..Len(steps) :
         j < k => steps[j].i <= steps[k].i /\ steps[j].t1 <= steps[k].t0
    /\ \A i \in Positions :
         /\ Cardinality(StepsOf({"mysqldump"}, i)) <= 1
         /\ Cardinality(StepsOf({"gzip"}, i)) <= 1
         /\ Cardinality(StepsOf({"upload"}, i)) <= 1
         /\ Cardinality(StepsOf({"tar"}, i)) <= (IF tool = "zip_dirs" THEN 2 ELSE 1)
         /\ Cardinality({k \in StepsOf({"mysqldump", "gzip", "tar"}, i) : steps[k].ok})
              <= (IF tool = "mysql_backup" THEN 2 ELSE 1)
         /\ \A k \in StepsOf({"remove", "rm", "delete", "upload"}, i) :
              /\ Archived(i)
              /\ \A j \in StepsOf({"mysqldump", "gzip", "tar"}, i) : j < k
    /\ (pc = "exit" /\ rc = <<0>> /\ ~args.testlog) =>
         /\ idx = Len(args.targets) + 1
         /\ \A i \in Positions :
              (~MissingDir(i)) => StepsOf({"mysqldump", "tar"}, i) # {}

\* C14 as stated: the calls are in list order, one target at a time, and in
\* drive_backup the retention calls of a target (removal of the local
\* archives, listing and deletion of the old remote files) come before its
\* upload.
C14_RetentionThenUpload ==
    /\ InListOrder
    /\ \A i \in Positions :
         \A j \in StepsOf({"rm", "list", "delete"}, i), k \in StepsOf({"upload"}, i) :
            j < k

\* C14 amended: the calls are in list order, one target at a time, each
\* position visited once; within a target the archive or dump comes first and
\* retention after it, and in drive_backup the upload comes before the
\* retention calls; every run terminates.
C14_SequentialAndTerminates ==
    /\ [](/\ InListOrder
          /\ \A i \in Positions :
               \A j \in StepsOf({"rm", "list", "delete"}, i),
                  k \in StepsOf({"upload"}, i) : k < j)
    /\ [][idx' \in {idx, idx + 1}]_vars
    /\ <>(pc = "exit")

\* a finished run of drive_backup over two directories: each was archived,
\* uploaded and then had an old remote file deleted
C14_Witness ==
    /\ tool = "drive_backup"
    /\ pc = "exit"
    /\ Len(args.targets) = 2
    /\ \A i \in Positions :
         /\ Archived(i)
         /\ UploadOk(i)
         /\ StepsOf({"delete"}, i) # {}

-----------------------------------------------------------------------------
(* Reports and mail *)

ArchiveFailures == {"dumpfailed", "gzipfailed", "tarfailed"}

\* the records written for a failed dump or archive command of position i
FailureRecords(i) ==
    {log[k] : k \in {n \in 1..Len(log) : log[n].ev \in ArchiveFailures /\ log[n].i = i}}

\* the SMTPHandler is attached in this run: the secrets file can be read, an
\* admin address was given and every EMAIL_* key is in the file
HandlerAttached ==
    /\ args.secretfile
    /\ args.adminemail
    /\ \A key \in EmailKeys : key \in secrets

\* C15 as stated: the failure that ends the archive attempts of a target
\* leaves an error-level log record for that target, in every tool and in
\* verbose and non-verbose mode.
C15_FailureAlwaysLogged ==
    \A j \in 1..Len(steps) :
       FinalArchiveFailure(j) =>
          \E r \in FailureRecords(steps[j].i) : r.ch = "log" /\ r.level = "error"

\* C15 amended: the failure that ends the archive attempts of a target leaves
\* one error-level log record for that target, mailed when the handler is
\* attached, in drive_backup and in non-verbose mysql_backup and zip_dirs; in
\* verbose mysql_backup and zip_dirs it leaves a line on standard output and
\* no log record.
C15_FailureLoggedUnlessVerbose ==
    \A j \in 1..Len(steps) :
       FinalArchiveFailure(j) =>
          LET logged == {r \in FailureRecords(steps[j].i) : r.ch = "log"}
              printed == {r \in FailureRecords(steps[j].i) : r.ch = "stdout"}
          IN /\ \A r \in logged : r.level = "error" /\ (r.mailed <=> HandlerAttached)
             /\ IF tool = "drive_backup" \/ ~args.verbose
                THEN Cardinality(logged) = 1
                ELSE logged = {} /\ printed # {}
             /\ (tool = "drive_backup" /\ args.verbose) => printed # {}

\* non-verbose zip_dirs with the handler attached: both tar runs of the first
\* directory failed, the record was mailed, and the run went on to the end
C15_Witness ==
    /\ tool = "zip_dirs"
    /\ ~args.verbose
    /\ HandlerAttached
    /\ pc = "exit"
    /\ \E j \in 1..Len(steps) : FinalArchiveFailure(j) /\ steps[j].i = 1
    /\ \E r \in FailureRecords(1) : r.ch = "log" /\ r.level = "error" /\ r.mailed

\* C16 as stated: a record is mailed only when an admin address was given,
\* and only when it is of error level.
C16_OnlyErrorsMailed ==
    \A k \in 1..Len(log) :
       log[k].mailed => args.adminemail /\ log[k].level = "error"

\* C16 amended: a record is mailed only when the handler is attached (admin
\* address given, every EMAIL_* key present); it is then of error level, or
\* it is the info-level summary that ends a run of drive_backup; with the
\* handler attached every error-level log record is mailed.
C16_ErrorsAndDriveSummaryMailed ==
    \A k \in 1..Len(log) :
       /\ log[k].mailed =>
            /\ HandlerAttached
            /\ log[k].ch = "log"
            /\ \/ log[k].level = "error"
               \/ tool = "drive_backup" /\ log[k].ev = "summary" /\ k = Len(log)
       /\ (HandlerAttached /\ log[k].ch = "log" /\ log[k].level = "error") =>
            log[k].mailed

\* a finished run of drive_backup with the handler attached: the info-level
\* record of an upload was not mailed, the summary was
C16_Witness ==
    /\ tool = "drive_backup"
    /\ pc = "exit"
    /\ rc = <<0>>
    /\ HandlerAttached
    /\ \E k \in 1..Len(log) : log[k].ev = "summary" /\ log[k].mailed
    /\ \E k \in 1..Len(log) :
         log[k].ch = "log" /\ log[k].level = "info" /\ ~log[k].mailed

-----------------------------------------------------------------------------
(* Interrupt *)

\* C17: an interrupt can arrive at every point of a run; it makes main return
\* 0 and runs no command, changes no file and no remote file; after the
\* return nothing more is done.
C17_InterruptReturnsZero ==
    /\ [](pc # "exit" => ENABLED Interrupt)
    /\ [][Interrupt => /\ rc' = <<0>>
                       /\ pc' = "exit"
                       /\ <<steps, fs, dirs, remote, log, idx>>' =
                            <<steps, fs, dirs, remote, log, idx>>]_vars
    /\ [][pc # "exit"]_vars

\* zip_dirs over two existing directories, interrupted after the first was
\* archived and before any step of the second: return code 0
C17_Witness ==
    /\ tool = "zip_dirs"
    /\ ~args.testlog
    /\ Len(args.targets) = 2
    /\ ~MissingDir(2)
    /\ pc = "exit"
    /\ rc = <<0>>
    /\ Archived(1)
    /\ idx <= 2
    /\ StepsOf({"tar", "sleep", "remove", "chmod", "unlink", "link"}, 2) = {}

-----------------------------------------------------------------------------
(* --testlog *)

LogRecords(level) == SelectSeq(log, LAMBDA r : r.ch = "log" /\ r.level = level)

-----------------------------------------------------------------------------
(* The Current directory of zip_dirs *)

\* the files of Current whose name starts with the root name of the target
CurrentLinks(files, i) ==
    {f \in files : /\ f.dir = Canon(PathToCurrent)
                   /\ IsPrefix(Sanitize(args.targets[i]), f.name)}

\* this step ends the work of zip_dirs on an archived target, and no call of
\* the step failed
ZipTargetDone ==
    /\ tool = "zip_dirs"
    /\ pc \in {"current", "curclean"}
    /\ pc' = "loop"
    /\ idx' = idx + 1
    /\ Archived(idx)
    /\ steps'[Len(steps')].ok

\* C19: when zip_dirs has archived a target and goes on to the next, Current
\* exists and the only file in it with the root name of the target is the
\* link to the archive just made, also in the run that creates Current.
C19_CurrentHoldsNewLink ==
    [][ZipTargetDone =>
          /\ Canon(PathToCurrent) \in dirs'
          /\ {f.name : f \in CurrentLinks(fs', idx)} = {loc.backupfile.name}]_vars

-----------------------------------------------------------------------------
(* Targets of one run *)

\* the artifacts this run made for a target of another name than the one at
\* position i
MadeForOthers(i) ==
    {m \in obs.made : args.targets[m.i] # args.targets[i]}

\* C20: a file the sweep of mysql_backup or zip_dirs removes for one target
\* is never the artifact this run made for a target of another name, also
\* when one (sanitized) name is a prefix of the other.
C20_SweepSparesOtherTargets ==
    \A r \in obs.swept :
       r.act = "removed" =>
          \A m \in MadeForOthers(r.i) :
             ~(m.path.name = r.file.name /\ Canon(m.path.dir) = Canon(r.file.dir))

-----------------------------------------------------------------------------
(* A failed upload *)

\* upload_file_to_folder was called for position i and returned None
UploadFailed(i) == Len(UploadCalls(i)) > 0 /\ ~UploadOk(i)

\* a copy of the target at position i: its local archive in /tmp, or a remote
\* file whose name carries its root name
CopiesOf(i) ==
    {f \in fs : f.dir = Canon(TmpDir) /\ IsPrefix(Sanitize(args.targets[i]), f.name)}
    \cup {f \in remote : Contains(f.name, TmpDir \o <<"/">> \o Sanitize(args.targets[i]))}

\* C21: in drive_backup, when the upload of the archive of a target has
\* failed, the iteration of that target does not remove the local archive and
\* deletes no remote file, so the target keeps at least one copy.
C21_FailedUploadKeepsCopies ==
    tool = "drive_backup" =>
       \A i \in Positions :
          UploadFailed(i) =>
             /\ idx = i => \A m \in obs.made : m.i = i => IsFile(fs, m.path)
             /\ \A d \in obs.rdeleted : d.i # i
             /\ CopiesOf(i) # {}

-----------------------------------------------------------------------------
(* Files a failed dump leaves *)

\* the files of the backup directory this run of mysql_backup wrote
WrittenByRun == fs \ obs.before

\* C22: after a run of mysql_backup every file the run left in the backup
\* directory is the .sql.gz of a database whose mysqldump and gzip both
\* succeeded; a database whose dump or gzip failed left no file.
C22_FailedDumpLeavesNoFile ==
    (tool = "mysql_backup" /\ pc = "exit") =>
       \A f \in WrittenByRun :
          \E m \in obs.made : m.path.name = f.name /\ Canon(m.path.dir) = f.dir

====
